---- MODULE Spec2Model ----
(***************************************************************************)
(* Peer-presence registry and liveness subsystem of the super-peer server  *)
(* (internal/p2p/service.go).  The registry is the pair of maps peers and  *)
(* superPeers guarded by the RWMutex mu; every registered peer has a       *)
(* monitorPeerConnection goroutine; the persisted store is the gorm        *)
(* database behind s.db.                                                   *)
(*                                                                         *)
(* Time is a discrete clock in seconds (the unit of HeartbeatInterval and  *)
(* ConnectionTimeout).  Request handlers and monitor steps take no clock   *)
(* time: the clock advances only when no handler is in flight and every    *)
(* monitor has handled the tick or stop signal that is ready for it.       *)
(***************************************************************************)
EXTENDS Integers, Sequences, FiniteSets, TLC

\* ---------------------------------------------------------------- bounds
MaxPeers == 2
MaxFiles == 2
HeartbeatInterval == 1
ConnectionTimeout == 2
MaxFileSize == 1
MaxSearches == 1

Clients == {"c1", "c2"}
PeerIds == 1..MaxPeers
\* the clock stops one heartbeat period after the latest possible reap
MaxTime == ConnectionTimeout + 2 * HeartbeatInterval
\* the join requests clients send: peer name, client IP, listen port
Joins == { [PeerName |-> "alice", IP |-> "10.0.0.1", ListenPort |-> 7001],
           [PeerName |-> "bob", IP |-> "10.0.0.2", ListenPort |-> 7002] }
\* what the clients do in one run: the number of requests of each kind and
\* the number of seconds the clock runs
Workloads ==
    { \* one peer's whole life: join, heartbeats, leave, reap
      [register |-> 1, heartbeat |-> 2, disconnect |-> 2,
       share |-> 0, search |-> 0, list |-> 0, files |-> 0,
       ticks |-> MaxTime],
      \* several peers joining and leaving, the clock stopped
      [register |-> MaxPeers, heartbeat |-> 1, disconnect |-> 2,
       share |-> 0, search |-> 0, list |-> 0, files |-> 0,
       ticks |-> 0],
      \* several peers, some kept alive, the others reaped
      [register |-> MaxPeers, heartbeat |-> 1, disconnect |-> 0,
       share |-> 0, search |-> 0, list |-> 0, files |-> 0,
       ticks |-> MaxTime],
      \* files announced and searched
      [register |-> 1, heartbeat |-> 0, disconnect |-> 0,
       share |-> MaxFiles, search |-> MaxSearches, list |-> 0, files |-> 0,
       ticks |-> 0],
      \* a file announced and searched while its owner leaves
      [register |-> 1, heartbeat |-> 0, disconnect |-> 1,
       share |-> 1, search |-> MaxSearches, list |-> 0, files |-> 0,
       ticks |-> 0],
      \* a file announced and searched while its owner is reaped
      [register |-> 1, heartbeat |-> 0, disconnect |-> 0,
       share |-> 1, search |-> MaxSearches, list |-> 0, files |-> 0,
       ticks |-> MaxTime],
      \* the peers listed while they join and leave
      [register |-> MaxPeers, heartbeat |-> 1, disconnect |-> 1,
       share |-> 0, search |-> 0, list |-> 1, files |-> 0,
       ticks |-> 0],
      \* a peer's files fetched while it announces, pings and leaves
      [register |-> 1, heartbeat |-> 1, disconnect |-> 1,
       share |-> 1, search |-> 0, list |-> 0, files |-> 1,
       ticks |-> 0] }
\* sizes around the configured maximum
Sizes == {MaxFileSize, MaxFileSize + 1}
\* (name, type) pairs a client may announce; strings are character tuples
FileKinds == { [Name |-> <<"R", "e">>, Type |-> <<>>],
               [Name |-> <<"n">>, Type |-> <<"r", "e">>] }
Queries == { <<"r", "e">>, <<"n">>, <<"x">> }

VARIABLES
    peers,       \* Service.peers: ids that are keys of the regular map
    superPeers,  \* Service.superPeers: ids that are keys of the super map
    conn,        \* the PeerConnection objects, by user id
    mu,          \* Service.mu: the writer and the readers holding it
    mon,         \* the monitorPeerConnection goroutine of each id
    dbUsers,     \* users table: id -> row
    dbFiles,     \* files table, in insertion order
    req,         \* the request handler running for each client
    now,         \* wall clock, seconds
    nextId,      \* next user id uuid.New() hands out
    nextFileId,  \* next file id uuid.New() hands out
    todo,        \* the requests the clients still send, and the clock ticks left
    closes,      \* per id: number of close() calls on its Disconnect channel
    oks,         \* per id: number of DisconnectPeer calls that returned nil
    panicked     \* a close of a closed channel has crashed the process

vars == <<peers, superPeers, conn, mu, mon, dbUsers, dbFiles, req, now,
          nextId, nextFileId, todo, closes, oks, panicked>>

registry == <<peers, superPeers, conn>>

NoMon == [pc |-> "none", nextTick |-> 0, ret |-> "none"]

IdleReq == [pc |-> "idle", op |-> "none", id |-> 0, ret |-> "none",
            file |-> <<>>, dbFiles |-> <<>>, i |-> 0, results |-> <<>>,
            pre |-> <<>>, query |-> <<>>, dbErr |-> FALSE]

Present(id) == id \in peers \/ id \in superPeers

\* the ids a client can put in a request: an id is a random UUID, so it is
\* either one no RegisterPeer call has minted or one RegisterPeer has returned
Nameable(id) == id \notin DOMAIN conn \/ mon[id].pc # "none"

\* ------------------------------------------------------------ sync.RWMutex
CanLock_IgnoreReaders == mu.writer = "none"

\* Lock() succeeds when nobody holds the mutex
CanLock == mu.writer = "none" /\ mu.readers = {}

\* RLock() succeeds when no writer holds the mutex
CanRLock == mu.writer = "none"

\* ------------------------------------------------------------------- Init
Init ==
    /\ peers = {}
    /\ superPeers = {}
    /\ conn = <<>>
    /\ mu = [writer |-> "none", readers |-> {}]
    /\ mon = [id \in PeerIds |-> NoMon]
    /\ dbUsers = <<>>
    /\ dbFiles = <<>>
    /\ req = [c \in Clients |-> IdleReq]
    /\ now = 0
    /\ nextId = 1
    /\ nextFileId = 1
    /\ todo \in Workloads
    /\ closes = [id \in PeerIds |-> 0]
    /\ oks = [id \in PeerIds |-> 0]
    /\ panicked = FALSE

\* ----------------------------------------------------------- RegisterPeer
\* hands the latest id out again
NewUUID_Reused == IF nextId > 1 THEN nextId - 1 ELSE nextId

\* line 53: uuid.New(), a value no earlier call has returned
NewUUID == nextId

CreateFails_Ignored(dbErr, dup) == dup

\* line 63: Create(user) returns an error when the store is failing or when
\* the unique index on Username rejects the row
CreateFails(dbErr, dup) == dbErr \/ dup

\* lines 50-76: mint the id, persist the user row, build the PeerConnection
RegisterCreate(c, peerName, ipAddress, listenPort, isSuper, dbErr) ==
    /\ ~panicked
    /\ req[c].pc = "idle"
    /\ todo.register > 0
    /\ todo' = [todo EXCEPT !.register = @ - 1]
    /\ nextId <= MaxPeers
    /\ LET user == [ID |-> NewUUID, Username |-> peerName, IsSuper |-> isSuper,
                    LastSeen |-> now]
           \* Username carries a unique index
           dup == \E u \in DOMAIN dbUsers : dbUsers[u].Username = peerName
       IN  IF CreateFails(dbErr, dup)
           THEN /\ req' = [req EXCEPT ![c] = [IdleReq EXCEPT !.pc = "ret",
                               !.op = "register", !.ret = "StoreError",
                               !.dbErr = dbErr]]
                /\ UNCHANGED <<conn, dbUsers, nextId>>
           ELSE /\ dbUsers' = dbUsers @@ (NewUUID :> user)
                /\ conn' = conn @@ (NewUUID :>
                             [User |-> user, IPAddress |-> ipAddress,
                              ListenPort |-> listenPort, LastPing |-> now,
                              Files |-> <<>>, IsActive |-> TRUE,
                              Disconnect |-> "open"])
                /\ nextId' = nextId + 1
                /\ req' = [req EXCEPT ![c] = [IdleReq EXCEPT !.pc = "reg_lock",
                               !.op = "register", !.id = NewUUID,
                               !.dbErr = dbErr]]
    /\ UNCHANGED <<peers, superPeers, mu, mon, dbFiles, now, nextFileId,
                   closes, oks, panicked>>

RegisterInsert_Swapped(c) ==
    /\ ~panicked
    /\ req[c].pc = "reg_lock"
    /\ CanLock
    /\ IF conn[req[c].id].User.IsSuper
       THEN /\ peers' = peers \cup {req[c].id}
            /\ UNCHANGED superPeers
       ELSE /\ superPeers' = superPeers \cup {req[c].id}
            /\ UNCHANGED peers
    /\ req' = [req EXCEPT ![c].pc = "reg_spawn"]
    /\ UNCHANGED <<todo, conn, mu, mon, dbUsers, dbFiles, now, nextId, nextFileId,
                   closes, oks, panicked>>

\* lines 78-85: insert into the map of the peer's role, under the write lock
RegisterInsert(c) ==
    /\ ~panicked
    /\ req[c].pc = "reg_lock"
    /\ CanLock
    /\ IF conn[req[c].id].User.IsSuper
       THEN /\ superPeers' = superPeers \cup {req[c].id}
            /\ UNCHANGED peers
       ELSE /\ peers' = peers \cup {req[c].id}
            /\ UNCHANGED superPeers
    /\ req' = [req EXCEPT ![c].pc = "reg_spawn"]
    /\ UNCHANGED <<todo, conn, mu, mon, dbUsers, dbFiles, now, nextId, nextFileId,
                   closes, oks, panicked>>

\* lines 87-90: go s.monitorPeerConnection(conn); return user
RegisterSpawn(c) ==
    /\ ~panicked
    /\ req[c].pc = "reg_spawn"
    /\ mon' = [mon EXCEPT ![req[c].id] =
                 [pc |-> "select", nextTick |-> now + HeartbeatInterval,
                  ret |-> "none"]]
    /\ req' = [req EXCEPT ![c].pc = "ret", ![c].ret = "ok"]
    /\ UNCHANGED <<todo, peers, superPeers, conn, mu, dbUsers, dbFiles, now, nextId,
                   nextFileId, closes, oks, panicked>>

\* --------------------------------------------------------- DisconnectPeer
CloseChan_Skip(peerID) == UNCHANGED <<closes, panicked, conn>>

CloseChan_Deactivate(peerID) ==
    /\ closes' = [closes EXCEPT ![peerID] = @ + 1]
    /\ panicked' = (conn[peerID].Disconnect = "closed")
    /\ conn' = [conn EXCEPT ![peerID].Disconnect = "closed",
                            ![peerID].IsActive = FALSE]

CloseChan_Unmarked(peerID) ==
    /\ closes' = [closes EXCEPT ![peerID] = @ + 1]
    /\ panicked' = (conn[peerID].Disconnect = "closed")
    /\ UNCHANGED conn

\* lines 183, 190: close(peer.Disconnect); closing a closed channel panics
CloseChan(peerID) ==
    /\ closes' = [closes EXCEPT ![peerID] = @ + 1]
    /\ panicked' = (conn[peerID].Disconnect = "closed")
    /\ conn' = [conn EXCEPT ![peerID].Disconnect = "closed"]

DeleteFrom_Keep(m, peerID) == m

DeleteFrom_All(m, peerID) == {}

\* lines 184, 191: delete(map, peerID)
DeleteFrom(m, peerID) == m \ {peerID}

ErrPeerNotFound_Nil == "ok"

\* line 195: the error returned for an id in neither map
ErrPeerNotFound == "NotFound"

DisconnectPeer_Unchecked(peerID, r) ==
    IF peerID \in superPeers
    THEN /\ r = "ok"
         /\ CloseChan(peerID)
         /\ superPeers' = DeleteFrom(superPeers, peerID)
         /\ UNCHANGED peers
    ELSE IF peerID \in peers
    THEN /\ r = "ok"
         /\ CloseChan(peerID)
         /\ peers' = DeleteFrom(peers, peerID)
         /\ UNCHANGED superPeers
    ELSE IF peerID \in DOMAIN conn
    THEN /\ r = "ok"
         /\ CloseChan(peerID)
         /\ UNCHANGED <<peers, superPeers>>
    ELSE /\ r = ErrPeerNotFound
         /\ UNCHANGED <<peers, superPeers, conn, closes, panicked>>

\* lines 177-196, the body run under the write lock; r is the value returned
DisconnectPeer(peerID, r) ==
    IF peerID \in superPeers
    THEN /\ r = "ok"
         /\ CloseChan(peerID)
         /\ superPeers' = DeleteFrom(superPeers, peerID)
         /\ UNCHANGED peers
    ELSE IF peerID \in peers
    THEN /\ r = "ok"
         /\ CloseChan(peerID)
         /\ peers' = DeleteFrom(peers, peerID)
         /\ UNCHANGED superPeers
    ELSE /\ r = ErrPeerNotFound
         /\ UNCHANGED <<peers, superPeers, conn, closes, panicked>>

\* an explicit leave: a request handler calls DisconnectPeer
Disconnect(c, peerID) ==
    /\ ~panicked
    /\ req[c].pc = "idle"
    /\ todo.disconnect > 0
    /\ todo' = [todo EXCEPT !.disconnect = @ - 1]
    /\ Nameable(peerID)
    /\ CanLock
    /\ \E r \in {"ok", "NotFound"} :
         /\ DisconnectPeer(peerID, r)
         /\ oks' = [oks EXCEPT ![peerID] = IF r = "ok" THEN @ + 1 ELSE @]
         /\ req' = [req EXCEPT ![c] = [IdleReq EXCEPT !.pc = "ret",
                        !.op = "disconnect", !.id = peerID, !.ret = r]]
    /\ UNCHANGED <<mu, mon, dbUsers, dbFiles, now, nextId, nextFileId>>

\* -------------------------------------------------- monitorPeerConnection
Expired_Late(lastPing) ==
    now - lastPing > ConnectionTimeout + HeartbeatInterval

Expired_AtTimeout(lastPing) == now - lastPing >= ConnectionTimeout

Expired_Early(lastPing) == now - lastPing >= HeartbeatInterval

\* line 207: the timeout test of one tick
Expired(lastPing) == now - lastPing > ConnectionTimeout

\* lines 205-215, case <-ticker.C
MonitorTick(id) ==
    /\ ~panicked
    /\ mon[id].pc = "select"
    /\ mon[id].nextTick <= now
    /\ IF Expired(conn[id].LastPing)
       THEN mon' = [mon EXCEPT ![id].pc = "expired"]
       ELSE mon' = [mon EXCEPT ![id].nextTick = @ + HeartbeatInterval]
    /\ UNCHANGED <<peers, superPeers, conn, mu, dbUsers, dbFiles, req, now,
                   nextId, nextFileId, todo, closes, oks, panicked>>

MonitorDisconnect_Recheck(id) ==
    /\ ~panicked
    /\ mon[id].pc = "expired"
    /\ CanLock
    /\ \E r \in {"ok", "NotFound"} :
         /\ DisconnectPeer(conn[id].User.ID, r)
         /\ oks' = [oks EXCEPT ![id] = IF r = "ok" THEN @ + 1 ELSE @]
         /\ mon' = [mon EXCEPT ![id] = [pc |-> "select",
                        nextTick |-> now + HeartbeatInterval, ret |-> r]]
    /\ UNCHANGED <<todo, mu, dbUsers, dbFiles, req, now, nextId, nextFileId>>

\* lines 213-214: s.DisconnectPeer(ctx, peer.User.ID); return
MonitorDisconnect(id) ==
    /\ ~panicked
    /\ mon[id].pc = "expired"
    /\ CanLock
    /\ \E r \in {"ok", "NotFound"} :
         /\ DisconnectPeer(conn[id].User.ID, r)
         /\ oks' = [oks EXCEPT ![id] = IF r = "ok" THEN @ + 1 ELSE @]
         /\ mon' = [mon EXCEPT ![id] = [pc |-> "done", nextTick |-> 0, ret |-> r]]
    /\ UNCHANGED <<todo, mu, dbUsers, dbFiles, req, now, nextId, nextFileId>>

MonitorStop_Deaf(id) ==
    /\ ~panicked
    /\ mon[id].pc = "select"
    /\ conn[id].Disconnect = "closed"
    /\ UNCHANGED vars

\* lines 216-217, case <-peer.Disconnect
MonitorStop(id) ==
    /\ ~panicked
    /\ mon[id].pc = "select"
    /\ conn[id].Disconnect = "closed"
    /\ mon' = [mon EXCEPT ![id] = [pc |-> "done", nextTick |-> 0, ret |-> "none"]]
    /\ UNCHANGED <<peers, superPeers, conn, mu, dbUsers, dbFiles, req, now,
                   nextId, nextFileId, todo, closes, oks, panicked>>

\* ------------------------------------------------------- UpdatePeerStatus
\* a clock that runs one second behind
TimeNow_Behind == IF now > 0 THEN now - 1 ELSE now

\* lines 229, 231: time.Now()
TimeNow == now

Known_RegularOnly(peerID) == peerID \in peers

Known_Stale(peerID) == peerID \in DOMAIN conn

\* lines 228-232: the lookup in the regular map, then in the super map
Known(peerID) == peerID \in peers \/ peerID \in superPeers

HeartbeatWrite_Readdress(c, peerID) ==
    /\ ~panicked
    /\ req[c].pc = "idle"
    /\ todo.heartbeat > 0
    /\ todo' = [todo EXCEPT !.heartbeat = @ - 1]
    /\ Nameable(peerID)
    /\ CanLock
    /\ IF Known(peerID)
       THEN /\ conn' = [conn EXCEPT ![peerID].LastPing = TimeNow,
                                    ![peerID].IPAddress = "0.0.0.0"]
            /\ mu' = [mu EXCEPT !.writer = c]
            /\ req' = [req EXCEPT ![c] = [IdleReq EXCEPT !.pc = "hb_db",
                           !.op = "heartbeat", !.id = peerID,
                           !.pre = conn[peerID]]]
       ELSE /\ req' = [req EXCEPT ![c] = [IdleReq EXCEPT !.pc = "ret",
                           !.op = "heartbeat", !.id = peerID,
                           !.ret = "NotFound"]]
            /\ UNCHANGED <<conn, mu>>
    /\ UNCHANGED <<peers, superPeers, mon, dbUsers, dbFiles, now, nextId,
                   nextFileId, closes, oks, panicked>>

\* lines 223-234: take the write lock, refresh LastPing or return not found
HeartbeatWrite(c, peerID) ==
    /\ ~panicked
    /\ req[c].pc = "idle"
    /\ todo.heartbeat > 0
    /\ todo' = [todo EXCEPT !.heartbeat = @ - 1]
    /\ Nameable(peerID)
    /\ CanLock
    /\ IF Known(peerID)
       THEN /\ conn' = [conn EXCEPT ![peerID].LastPing = TimeNow]
            /\ mu' = [mu EXCEPT !.writer = c]
            /\ req' = [req EXCEPT ![c] = [IdleReq EXCEPT !.pc = "hb_db",
                           !.op = "heartbeat", !.id = peerID,
                           !.pre = conn[peerID]]]
       ELSE /\ req' = [req EXCEPT ![c] = [IdleReq EXCEPT !.pc = "ret",
                           !.op = "heartbeat", !.id = peerID,
                           !.ret = "NotFound"]]
            /\ UNCHANGED <<conn, mu>>
    /\ UNCHANGED <<peers, superPeers, mon, dbUsers, dbFiles, now, nextId,
                   nextFileId, closes, oks, panicked>>

HeartbeatStore_LeakOnError(c, dbErr) ==
    /\ ~panicked
    /\ req[c].pc = "hb_db"
    /\ IF dbErr
       THEN /\ req' = [req EXCEPT ![c].pc = "ret", ![c].ret = "StoreError"]
            /\ UNCHANGED dbUsers
       ELSE /\ dbUsers' = [dbUsers EXCEPT ![req[c].id].LastSeen = now]
            /\ req' = [req EXCEPT ![c].pc = "ret", ![c].ret = "ok"]
    /\ mu' = IF dbErr THEN mu ELSE [mu EXCEPT !.writer = "none"]
    /\ UNCHANGED <<todo, peers, superPeers, conn, mon, dbFiles, now, nextId,
                   nextFileId, closes, oks, panicked>>

\* lines 236-241: update last_seen in the store, still holding the lock
HeartbeatStore(c, dbErr) ==
    /\ ~panicked
    /\ req[c].pc = "hb_db"
    /\ IF dbErr
       THEN /\ req' = [req EXCEPT ![c].pc = "ret", ![c].ret = "StoreError"]
            /\ UNCHANGED dbUsers
       ELSE /\ dbUsers' = [dbUsers EXCEPT ![req[c].id].LastSeen = now]
            /\ req' = [req EXCEPT ![c].pc = "ret", ![c].ret = "ok"]
    /\ mu' = [mu EXCEPT !.writer = "none"]
    /\ UNCHANGED <<todo, peers, superPeers, conn, mon, dbFiles, now, nextId,
                   nextFileId, closes, oks, panicked>>

\* -------------------------------------------------------------- ShareFile
TooLarge_GE(size) == size >= MaxFileSize

\* line 96: the size check
TooLarge(size) == size > MaxFileSize

SaveFails_Retried(dbErr) == FALSE

\* line 101: Create(file) returns an error when the store is failing
SaveFails(dbErr) == dbErr

ShareCreate_CacheUnsaved(c, userID, kind, size, dbErr) ==
    /\ ~panicked
    /\ req[c].pc = "idle"
    /\ todo.share > 0
    /\ todo' = [todo EXCEPT !.share = @ - 1]
    /\ Nameable(userID)
    /\ nextFileId <= MaxFiles
    /\ LET file == [ID |-> nextFileId, Name |-> kind.Name, Type |-> kind.Type,
                    Size |-> size, OwnerID |-> userID]
           called == [IdleReq EXCEPT !.op = "share", !.id = userID,
                                     !.file = file]
       IN  IF TooLarge(file.Size)
           THEN /\ req' = [req EXCEPT ![c] = [called EXCEPT !.pc = "ret",
                               !.ret = "SizeExceeded"]]
                /\ UNCHANGED <<dbFiles, nextFileId>>
           ELSE IF SaveFails(dbErr)
           THEN /\ req' = [req EXCEPT ![c] = [called EXCEPT
                               !.pc = "share_cache", !.dbErr = dbErr]]
                /\ UNCHANGED <<dbFiles, nextFileId>>
           ELSE /\ dbFiles' = Append(dbFiles, file)
                /\ nextFileId' = nextFileId + 1
                /\ req' = [req EXCEPT ![c] = [called EXCEPT
                               !.pc = "share_cache", !.dbErr = dbErr]]
    /\ UNCHANGED <<peers, superPeers, conn, mu, mon, dbUsers, now, nextId,
                   closes, oks, panicked>>

\* lines 94-103: the size check, then the insert into the files table; the
\* file is the one the handler builds: fresh id, OwnerID = the caller's id
ShareCreate(c, userID, kind, size, dbErr) ==
    /\ ~panicked
    /\ req[c].pc = "idle"
    /\ todo.share > 0
    /\ todo' = [todo EXCEPT !.share = @ - 1]
    /\ Nameable(userID)
    /\ nextFileId <= MaxFiles
    /\ LET file == [ID |-> nextFileId, Name |-> kind.Name, Type |-> kind.Type,
                    Size |-> size, OwnerID |-> userID]
           called == [IdleReq EXCEPT !.op = "share", !.id = userID,
                                     !.file = file]
       IN  IF TooLarge(file.Size)
           THEN /\ req' = [req EXCEPT ![c] = [called EXCEPT !.pc = "ret",
                               !.ret = "SizeExceeded"]]
                /\ UNCHANGED <<dbFiles, nextFileId>>
           ELSE IF SaveFails(dbErr)
           THEN /\ req' = [req EXCEPT ![c] = [called EXCEPT !.pc = "ret",
                               !.ret = "StoreError", !.dbErr = dbErr]]
                /\ UNCHANGED <<dbFiles, nextFileId>>
           ELSE /\ dbFiles' = Append(dbFiles, file)
                /\ nextFileId' = nextFileId + 1
                /\ req' = [req EXCEPT ![c] = [called EXCEPT
                               !.pc = "share_cache", !.dbErr = dbErr]]
    /\ UNCHANGED <<peers, superPeers, conn, mu, mon, dbUsers, now, nextId,
                   closes, oks, panicked>>

ShareCache_Strict(c) ==
    /\ ~panicked
    /\ req[c].pc = "share_cache"
    /\ CanLock
    /\ IF req[c].id \in peers
       THEN /\ conn' = [conn EXCEPT ![req[c].id].Files =
                           (req[c].file.ID :> req[c].file) @@ @]
            /\ req' = [req EXCEPT ![c].pc = "ret", ![c].ret = "ok"]
       ELSE /\ UNCHANGED conn
            /\ req' = [req EXCEPT ![c].pc = "ret", ![c].ret = "NotFound"]
    /\ UNCHANGED <<todo, peers, superPeers, mu, mon, dbUsers, dbFiles, now,
                   nextId, nextFileId, closes, oks, panicked>>

\* lines 105-112: cache the file in the owner's PeerConnection
ShareCache(c) ==
    /\ ~panicked
    /\ req[c].pc = "share_cache"
    /\ CanLock
    /\ IF req[c].id \in peers
       THEN conn' = [conn EXCEPT ![req[c].id].Files =
                        (req[c].file.ID :> req[c].file) @@ @]
       ELSE UNCHANGED conn
    /\ req' = [req EXCEPT ![c].pc = "ret", ![c].ret = "ok"]
    /\ UNCHANGED <<todo, peers, superPeers, mu, mon, dbUsers, dbFiles, now,
                   nextId, nextFileId, closes, oks, panicked>>

\* ------------------------------------------------------ SearchSharedFiles
Lower(ch) == IF ch = "R" THEN "r" ELSE ch

LowerStr(s) == [k \in 1..Len(s) |-> Lower(s[k])]

Contains(s, q) ==
    \E k \in 0..(Len(s) - Len(q)) : SubSeq(s, k + 1, k + Len(q)) = q

\* line 131: name LIKE '%query%' under a case-insensitive collation
Like(name, query) == Contains(LowerStr(name), LowerStr(query))

\* lines 130-134: the store query
SearchQuery(c, query, dbErr) ==
    /\ ~panicked
    /\ req[c].pc = "idle"
    /\ todo.search > 0
    /\ todo' = [todo EXCEPT !.search = @ - 1]
    /\ IF dbErr
       THEN req' = [req EXCEPT ![c] = [IdleReq EXCEPT !.pc = "ret",
                        !.op = "search", !.ret = "StoreError"]]
       ELSE req' = [req EXCEPT ![c] = [IdleReq EXCEPT !.pc = "search_rlock",
                        !.op = "search", !.query = query,
                        !.dbFiles = SelectSeq(dbFiles,
                                      LAMBDA f : Like(f.Name, query))]]
    /\ UNCHANGED <<peers, superPeers, conn, mu, mon, dbUsers, dbFiles, now,
                   nextId, nextFileId, closes, oks, panicked>>

SearchRLock_NoLock(c) ==
    /\ ~panicked
    /\ req[c].pc = "search_rlock"
    /\ CanRLock
    /\ UNCHANGED mu
    /\ req' = [req EXCEPT ![c].pc = "search_loop", ![c].i = 1]
    /\ UNCHANGED <<todo, peers, superPeers, conn, mon, dbUsers, dbFiles, now,
                   nextId, nextFileId, closes, oks, panicked>>

\* lines 137-138: s.mu.RLock()
SearchRLock(c) ==
    /\ ~panicked
    /\ req[c].pc = "search_rlock"
    /\ CanRLock
    /\ mu' = [mu EXCEPT !.readers = @ \cup {c}]
    /\ req' = [req EXCEPT ![c].pc = "search_loop", ![c].i = 1]
    /\ UNCHANGED <<todo, peers, superPeers, conn, mon, dbUsers, dbFiles, now,
                   nextId, nextFileId, closes, oks, panicked>>

Lookup_Stale(ownerID) ==
    IF ownerID \in DOMAIN conn /\ conn[ownerID].IsActive THEN ownerID ELSE 0

Lookup_RegularOnly(ownerID) ==
    IF ownerID \in peers /\ conn[ownerID].IsActive THEN ownerID ELSE 0

\* lines 144-150: the owner lookup, 0 when no active owner is found
Lookup(ownerID) ==
    IF ownerID \in peers /\ conn[ownerID].IsActive THEN ownerID
    ELSE IF ownerID \in superPeers /\ conn[ownerID].IsActive THEN ownerID
    ELSE 0

\* lines 140-161: one iteration of the loop over the store's matches
SearchIter(c) ==
    /\ ~panicked
    /\ req[c].pc = "search_loop"
    /\ req[c].i <= Len(req[c].dbFiles)
    /\ LET file == req[c].dbFiles[req[c].i]
           p == Lookup(file.OwnerID)
       IN  IF p # 0
           THEN req' = [req EXCEPT ![c].i = @ + 1,
                          ![c].results = Append(@,
                              [File |-> file,
                               PeerIPAddress |-> conn[p].IPAddress,
                               PeerListenPort |-> conn[p].ListenPort])]
           ELSE req' = [req EXCEPT ![c].i = @ + 1]
    /\ UNCHANGED <<todo, peers, superPeers, conn, mu, mon, dbUsers, dbFiles,
                   now, nextId, nextFileId, closes, oks, panicked>>

SearchDone_ErrOnEmpty(c) ==
    /\ ~panicked
    /\ req[c].pc = "search_loop"
    /\ req[c].i > Len(req[c].dbFiles)
    /\ mu' = [mu EXCEPT !.readers = @ \ {c}]
    /\ req' = [req EXCEPT ![c].pc = "ret", ![c].ret =
                   IF req[c].results = <<>> THEN "NotFound" ELSE "ok"]
    /\ UNCHANGED <<todo, peers, superPeers, conn, mon, dbUsers, dbFiles, now,
                   nextId, nextFileId, closes, oks, panicked>>

\* lines 163-164 and the deferred RUnlock
SearchDone(c) ==
    /\ ~panicked
    /\ req[c].pc = "search_loop"
    /\ req[c].i > Len(req[c].dbFiles)
    /\ mu' = [mu EXCEPT !.readers = @ \ {c}]
    /\ req' = [req EXCEPT ![c].pc = "ret", ![c].ret = "ok"]
    /\ UNCHANGED <<todo, peers, superPeers, conn, mon, dbUsers, dbFiles, now,
                   nextId, nextFileId, closes, oks, panicked>>

\* ----------------------------------------------------------- GetPeerFiles
OwnedBy_Present(peerID) ==
    IF peerID \in peers \/ peerID \in superPeers
    THEN SelectSeq(dbFiles, LAMBDA f : f.OwnerID = peerID)
    ELSE <<>>

\* line 170: the store query owner_id = peerID
OwnedBy(peerID) == SelectSeq(dbFiles, LAMBDA f : f.OwnerID = peerID)

\* lines 168-174
GetPeerFiles(c, peerID, dbErr) ==
    /\ ~panicked
    /\ req[c].pc = "idle"
    /\ todo.files > 0
    /\ todo' = [todo EXCEPT !.files = @ - 1]
    /\ Nameable(peerID)
    /\ IF dbErr
       THEN req' = [req EXCEPT ![c] = [IdleReq EXCEPT !.pc = "ret",
                        !.op = "files", !.id = peerID,
                        !.ret = "StoreError"]]
       ELSE req' = [req EXCEPT ![c] = [IdleReq EXCEPT !.pc = "ret",
                        !.op = "files", !.id = peerID, !.ret = "ok",
                        !.results = OwnedBy(peerID)]]
    /\ UNCHANGED <<peers, superPeers, conn, mu, mon, dbUsers, dbFiles, now,
                   nextId, nextFileId, closes, oks, panicked>>

\* --------------------------------------------------------- GetActivePeers
\* the orders in which a range loop may visit the keys of a map
Orders(m) ==
    { o \in [1..Cardinality(m) -> m] :
        \A i, j \in 1..Cardinality(m) : i # j => o[i] # o[j] }

\* lines 270-277, 282-289: the DTO built from a PeerConnection
Summary(id) ==
    [ID |-> conn[id].User.ID, Username |-> conn[id].User.Username,
     IsSuperClient |-> conn[id].User.IsSuper,
     IPAddress |-> conn[id].IPAddress, ListenPort |-> conn[id].ListenPort,
     LastSeen |-> conn[id].LastPing]

\* lines 268-279 and 280-291: one loop, over the active entries of one map
ActiveOf(order) ==
    LET active == SelectSeq(order, LAMBDA id : conn[id].IsActive)
    IN  [k \in 1..Len(active) |-> Summary(active[k])]

ActivePeers_RegularOnly(regular, super) == ActiveOf(regular)

\* lines 266-291: the regular peers, then the super peers
ActivePeers(regular, super) == ActiveOf(regular) \o ActiveOf(super)

\* lines 262-294, run under the read lock; regular and super are the orders
\* in which the two range loops visit the maps
GetActivePeers(c, regular, super) ==
    /\ ~panicked
    /\ req[c].pc = "idle"
    /\ todo.list > 0
    /\ todo' = [todo EXCEPT !.list = @ - 1]
    /\ CanRLock
    /\ regular \in Orders(peers)
    /\ super \in Orders(superPeers)
    /\ req' = [req EXCEPT ![c] = [IdleReq EXCEPT !.pc = "ret",
                   !.op = "list", !.ret = "ok",
                   !.results = ActivePeers(regular, super)]]
    /\ UNCHANGED <<peers, superPeers, conn, mu, mon, dbUsers, dbFiles, now,
                   nextId, nextFileId, closes, oks, panicked>>

\* the caller takes the result; the handler goroutine ends
Return(c) ==
    /\ ~panicked
    /\ req[c].pc = "ret"
    /\ req' = [req EXCEPT ![c] = IdleReq]
    /\ UNCHANGED <<peers, superPeers, conn, mu, mon, dbUsers, dbFiles, now,
                   nextId, nextFileId, todo, closes, oks, panicked>>

\* ------------------------------------------------------------------ clock
MonitorReady(id) ==
    \/ mon[id].pc = "expired"
    \/ /\ mon[id].pc = "select"
       /\ mon[id].nextTick <= now \/ conn[id].Disconnect = "closed"

Advance ==
    /\ ~panicked
    /\ todo.ticks > 0
    /\ todo' = [todo EXCEPT !.ticks = @ - 1]
    /\ \A c \in Clients : req[c].pc = "idle"
    /\ \A id \in PeerIds : ~MonitorReady(id)
    /\ now' = now + 1
    /\ UNCHANGED <<peers, superPeers, conn, mu, mon, dbUsers, dbFiles, req,
                   nextId, nextFileId, closes, oks, panicked>>

\* ================================================================ claims
MonLive(id) == mon[id].pc \in {"select", "expired"}

\* client c's request of kind o starts in this step
Calls(c, o) == req[c].pc = "idle" /\ req'[c].pc # "idle" /\ req'[c].op = o

\* client c's request of kind o returns in this step
Returns(c, o) == req[c].pc # "ret" /\ req'[c].pc = "ret" /\ req'[c].op = o

InStore(file) == \E k \in 1..Len(dbFiles) : dbFiles[k] = file

\* C1: the Disconnect channel of an entry is closed at most once and no close
\* ever hits a closed channel; a DisconnectPeer call (from a request or from
\* the monitor) for an id whose channel is already closed returns NotFound
\* and changes nothing.
C1_StopSignalOnce ==
    [][ /\ ~panicked'
        /\ \A id \in PeerIds : closes'[id] <= 1
        /\ \A c \in Clients :
             Returns(c, "disconnect") /\ closes[req'[c].id] = 1
               => req'[c].ret = "NotFound" /\ UNCHANGED <<registry, closes>>
        /\ \A id \in PeerIds :
             mon[id].pc = "expired" /\ mon'[id].pc = "done" /\ closes[id] = 1
               => mon'[id].ret = "NotFound" /\ UNCHANGED <<registry, closes>>
      ]_vars

C1_SecondDisconnect ==
    \E c \in Clients :
        /\ req[c].pc = "ret" /\ req[c].op = "disconnect"
        /\ req[c].ret = "NotFound"
        /\ closes[req[c].id] = 1

\* C2: of all the DisconnectPeer calls for one id, explicit leaves and the
\* monitor's reap together, at most one returns ok, and that call is the one
\* that removed the entry and closed its channel; once the monitor has made
\* its removal call, exactly one call has returned ok.
C2_ExactlyOneRemoval ==
    \A id \in PeerIds :
        /\ oks[id] <= 1
        /\ oks[id] = 1 =>
             id \in DOMAIN conn /\ ~Present(id) /\ closes[id] = 1
        /\ mon[id].ret # "none" => oks[id] = 1
        /\ \A c \in Clients :
             req[c].pc = "ret" /\ req[c].op = "disconnect" /\ req[c].id = id
                  /\ req[c].ret = "ok"
               => oks[id] = 1

C2_LeaveWinsRace ==
    \E id \in PeerIds, c \in Clients :
        /\ mon[id].ret = "NotFound"
        /\ req[c].pc = "ret" /\ req[c].op = "disconnect"
        /\ req[c].id = id /\ req[c].ret = "ok"

\* C3: an entry that is present in the registry has never been silent for
\* more than ConnectionTimeout + HeartbeatInterval: its monitor removes it at
\* the latest at the tick that falls at that age, without any explicit leave.
C3_ReapedInTime ==
    \A id \in PeerIds :
        Present(id) =>
            now - conn[id].LastPing <= ConnectionTimeout + HeartbeatInterval

C3_Reaped ==
    \E id \in PeerIds :
        /\ mon[id].ret = "ok"
        /\ ~Present(id)
        /\ todo.disconnect = 0
        /\ now > ConnectionTimeout + HeartbeatInterval

\* C4 as claimed: in every state, an id is present in the registry exactly
\* when it has a live monitor.
C4_Original ==
    \A id \in PeerIds : Present(id) <=> MonLive(id)

\* C4 as amended: a present id has a live monitor, or the RegisterPeer call
\* that inserted it is about to start one; a live monitor of an absent id has
\* its stop signal fired; a terminated monitor's id is absent.
C4_MonitorsMatchEntries ==
    \A id \in PeerIds :
        /\ Present(id) =>
             \/ MonLive(id)
             \/ /\ mon[id].pc = "none"
                /\ \E c \in Clients :
                     req[c].pc = "reg_spawn" /\ req[c].id = id
        /\ MonLive(id) /\ ~Present(id) => conn[id].Disconnect = "closed"
        /\ mon[id].pc = "done" => ~Present(id)

C4_MonitorOutlivesEntry ==
    \E id \in PeerIds :
        MonLive(id) /\ ~Present(id) /\ conn[id].Disconnect = "closed"

\* C5: while SearchSharedFiles filters under the read lock, every record it
\* has put in its result has an owner that is present in the registry.
C5_SearchOwnersPresent ==
    \A c \in Clients :
        req[c].pc = "search_loop" =>
            \A k \in 1..Len(req[c].results) :
                Present(req[c].results[k].File.OwnerID)

C5_SearchDuringReap ==
    \E c \in Clients :
        /\ req[c].pc = "search_loop"
        /\ Len(req[c].results) > 0
        /\ mon[req[c].results[1].File.OwnerID].pc = "expired"

\* C6: when ShareFile returns ok for an owner that is present in the registry
\* (regular or super), the record is in the store and the owner's Files cache
\* maps the file id to it.
C6_ShareCachesFile ==
    [][ \A c \in Clients :
          Returns(c, "share") /\ req'[c].ret = "ok" /\ Present(req[c].id)
            => /\ InStore(req[c].file)'
               /\ req[c].file.ID \in DOMAIN conn'[req[c].id].Files
               /\ conn'[req[c].id].Files[req[c].file.ID] = req[c].file
      ]_vars

\* C7: ShareFile answers SizeExceeded exactly when the size is greater than
\* MaxFileSize, and then neither the store nor the registry changes.
C7_SizeLimit ==
    [][ \A c \in Clients :
          Calls(c, "share")
            => /\ req'[c].ret = "SizeExceeded"
                    <=> req'[c].file.Size > MaxFileSize
               /\ req'[c].ret = "SizeExceeded"
                    => UNCHANGED <<dbFiles, registry>>
      ]_vars

C7_RejectedAndAccepted ==
    \E c, d \in Clients :
        /\ req[c].op = "share" /\ req[c].ret = "SizeExceeded"
        /\ req[c].file.Size = MaxFileSize + 1
        /\ req[d].pc = "share_cache" /\ req[d].file.Size = MaxFileSize

\* C8 as claimed: a heartbeat for a present id sets LastPing to the current
\* time and returns ok.
C8_Original ==
    [][ \A c \in Clients :
          /\ Calls(c, "heartbeat") /\ Present(req'[c].id)
               => /\ req'[c].ret # "NotFound"
                  /\ conn'[req'[c].id].LastPing = now
          /\ Returns(c, "heartbeat") /\ req[c].pc = "hb_db"
               => req'[c].ret = "ok"
      ]_vars

\* C8 as amended: a heartbeat for a present id sets LastPing to the current
\* time; it returns ok when the store update succeeds (last_seen = now) and
\* StoreError when it fails (the users table unchanged), never NotFound.
C8_HeartbeatRefreshes ==
    [][ \A c \in Clients :
          /\ Calls(c, "heartbeat") /\ Present(req'[c].id)
               => /\ req'[c].ret # "NotFound"
                  /\ conn'[req'[c].id].LastPing = now
          /\ Returns(c, "heartbeat") /\ req[c].pc = "hb_db"
               => /\ req'[c].ret \in {"ok", "StoreError"}
                  /\ conn'[req[c].id].LastPing = now
                  /\ req'[c].ret = "ok" => dbUsers'[req[c].id].LastSeen = now
                  /\ req'[c].ret = "StoreError" => dbUsers' = dbUsers
      ]_vars

C8_Refreshed ==
    \E c \in Clients :
        /\ req[c].pc = "ret" /\ req[c].op = "heartbeat" /\ req[c].ret = "ok"
        /\ req[c].pre.LastPing < now
        /\ conn[req[c].id].LastPing = now

\* C9: a heartbeat or a leave for an id that is in neither map returns
\* NotFound at once and leaves the registry as it is; an id whose channel has
\* been closed is absent and stays absent.
C9_NotFoundIsFinal ==
    [][ /\ \A c \in Clients :
             (Calls(c, "heartbeat") \/ Calls(c, "disconnect"))
             /\ ~Present(req'[c].id)
               => /\ req'[c].pc = "ret"
                  /\ req'[c].ret = "NotFound"
                  /\ UNCHANGED registry
        /\ \A id \in DOMAIN conn :
             conn[id].Disconnect = "closed" => ~Present(id) /\ ~Present(id)'
      ]_vars

C9_HeartbeatAfterRemoval ==
    \E c \in Clients :
        /\ req[c].pc = "ret" /\ req[c].op = "heartbeat"
        /\ req[c].ret = "NotFound"
        /\ closes[req[c].id] = 1

\* C10: a request that ends with StoreError has left the registry as it was
\* when the request started.
C10_StoreErrorLeavesRegistry ==
    [][ \A c \in Clients :
          req[c].pc # "ret" /\ req'[c].pc = "ret" /\ req'[c].ret = "StoreError"
            => /\ UNCHANGED registry
               /\ req'[c].op = "heartbeat" => conn'[req[c].id] = req[c].pre
      ]_vars

\* C11: a task that holds the write lock of the registry is not inside a
\* call to the persisted store.
C11_NoStoreUnderLock ==
    \A c \in Clients : mu.writer = c => req[c].pc # "hb_db"

\* C12: a RegisterPeer call made while the store is working succeeds and adds
\* an entry under an id that had none, whatever peer name it carries, also a
\* name under which a peer has registered before.
C12_SameNameRegisters ==
    [][ \A c \in Clients :
          Calls(c, "register") /\ ~req'[c].dbErr
            => /\ req'[c].ret # "StoreError"
               /\ req'[c].id \notin DOMAIN conn
               /\ req'[c].id \in DOMAIN conn'
      ]_vars

\* C13: a RegisterPeer call whose Create fails returns the store error at
\* once; it adds no PeerConnection and no map entry, starts no monitor, and
\* the handler does nothing more than return.
C13_FailedRegisterLeavesNothing ==
    [][ \A c \in Clients :
          /\ Calls(c, "register")
               => /\ req'[c].dbErr => req'[c].ret = "StoreError"
                  /\ req'[c].ret = "StoreError"
                       => /\ req'[c].pc = "ret" /\ req'[c].id = 0
                          /\ UNCHANGED <<registry, mon, dbUsers>>
          /\ req[c].op = "register" /\ req[c].ret = "StoreError"
             /\ req'[c] # req[c]
               => req'[c] = IdleReq /\ UNCHANGED <<registry, mon, dbUsers>>
      ]_vars

C13_RegisterFailed ==
    \E c \in Clients :
        /\ req[c].pc = "ret" /\ req[c].op = "register"
        /\ req[c].ret = "StoreError" /\ req[c].dbErr
        /\ conn = <<>> /\ \A id \in PeerIds : mon[id].pc = "none"

\* C14: when the cache step of ShareFile finds the owner in neither map, the
\* call returns ok, the record stays in the store, and the registry is left
\* as it is (no entry is created or brought back).
C14_ShareByAbsentOwner ==
    [][ \A c \in Clients :
          Returns(c, "share") /\ req[c].pc = "share_cache"
          /\ ~Present(req[c].id)
            => /\ req'[c].ret = "ok"
               /\ InStore(req[c].file) /\ InStore(req[c].file)'
               /\ UNCHANGED registry
      ]_vars

C14_SharedAfterLeave ==
    \E c \in Clients :
        /\ req[c].pc = "ret" /\ req[c].op = "share" /\ req[c].ret = "ok"
        /\ closes[req[c].id] = 1 /\ ~Present(req[c].id)
        /\ InStore(req[c].file)
        /\ req[c].file.ID \notin DOMAIN conn[req[c].id].Files

\* C15: the store query of SearchSharedFiles selects the records whose name
\* or whose type contains the query, case-insensitively.
C15_NameOrType ==
    [][ \A c \in Clients :
          Calls(c, "search") /\ req'[c].pc = "search_rlock"
            => LET q == req'[c].query
               IN  req'[c].dbFiles =
                     SelectSeq(dbFiles,
                               LAMBDA f : Like(f.Name, q) \/ Like(f.Type, q))
      ]_vars

\* the search results for the store matches fs: each with its owner's
\* address and port
Annotated(fs) ==
    [k \in 1..Len(fs) |->
        [File |-> fs[k],
         PeerIPAddress |-> conn[fs[k].OwnerID].IPAddress,
         PeerListenPort |-> conn[fs[k].OwnerID].ListenPort]]

ActiveOwner(f) == Present(f.OwnerID) /\ conn[f.OwnerID].IsActive

\* C16: SearchSharedFiles returns the store matches whose owner is present
\* and active in either map, once each, in the store's order, with the
\* owner's address and port; the other matches are left out.
C16_SearchResults ==
    [][ \A c \in Clients :
          Returns(c, "search") /\ req'[c].ret = "ok"
            => /\ req'[c].results =
                    Annotated(SelectSeq(req[c].dbFiles, ActiveOwner))
               /\ UNCHANGED registry
      ]_vars

C16_OneKeptOneDropped ==
    \E c \in Clients :
        /\ req[c].pc = "ret" /\ req[c].op = "search" /\ req[c].ret = "ok"
        /\ Len(req[c].dbFiles) = 2
        /\ Len(req[c].results) = 1

\* C17: the id a successful RegisterPeer returns has never been the id of an
\* entry before, present or removed, and differs from the id of every
\* RegisterPeer call in flight.
C17_FreshIds ==
    [][ \A c \in Clients :
          Calls(c, "register") /\ req'[c].ret # "StoreError"
            => /\ req'[c].id \notin DOMAIN conn
               /\ \A d \in Clients \ {c} :
                    req[d].op = "register" => req[d].id # req'[c].id
      ]_vars

C17_IdAfterRemoval ==
    \E c \in Clients, id \in PeerIds :
        /\ req[c].pc = "ret" /\ req[c].op = "register" /\ req[c].ret = "ok"
        /\ id # req[c].id
        /\ closes[id] = 1

\* what the registry holds for an id
Entry(id) ==
    IF id \in DOMAIN conn
    THEN <<id \in peers, id \in superPeers, conn[id]>>
    ELSE <<FALSE, FALSE, <<>>>>

\* C18: a step changes what the registry holds for an id only when it is a
\* step of a request on that id or of that id's monitor; an id is in at most
\* one map, and an entry is filed under the id of its own user.
C18_DisjointIds ==
    [][ /\ \A y \in PeerIds :
             Entry(y)' # Entry(y)
               => \/ mon'[y] # mon[y]
                  \/ \E c \in Clients : req'[c] # req[c] /\ req'[c].id = y
        /\ peers' \cap superPeers' = {}
        /\ \A y \in PeerIds :
             y \in peers' \cup superPeers'
               => y \in DOMAIN conn' /\ conn'[y].User.ID = y
      ]_vars

C18_ConcurrentOnDisjointIds ==
    \E c, d \in Clients :
        /\ req[c].pc = "hb_db" /\ req[d].pc = "reg_spawn"
        /\ req[c].id # req[d].id
        /\ Present(req[c].id) /\ Present(req[d].id)

\* C19: once an entry is out of the registry while its monitor is running,
\* the monitor terminates.
C19_MonitorTerminates ==
    \A id \in PeerIds :
        (MonLive(id) /\ ~Present(id)) ~> (mon[id].pc = "done")

C19_StoppedBySignal ==
    \E id \in PeerIds :
        /\ mon[id].pc = "done" /\ mon[id].ret = "none"
        /\ closes[id] = 1 /\ ~Present(id)

\* C20: the LastPing of a PeerConnection never decreases.
C20_LastSeenMonotonic ==
    [][ \A id \in DOMAIN conn : conn'[id].LastPing >= conn[id].LastPing ]_vars

C20_Advanced ==
    \E id \in PeerIds :
        /\ Present(id)
        /\ conn[id].User.LastSeen > 0
        /\ conn[id].LastPing > conn[id].User.LastSeen

\* C21: an id is a key of at most one of the two maps, and it is a key of
\* superPeers exactly when its user is a super peer.
C21_OneMapByRole ==
    /\ peers \cap superPeers = {}
    /\ \A id \in peers \cup superPeers :
         id \in superPeers <=> conn[id].User.IsSuper

C21_BothRolesPresent ==
    \E a \in peers, b \in superPeers :
        ~conn[a].User.IsSuper /\ conn[b].User.IsSuper

\* C22: IsActive is true in every PeerConnection, in the registry or removed
\* from it: no operation sets it to false.
C22_AlwaysActive ==
    \A id \in DOMAIN conn : conn[id].IsActive

C22_ActiveAfterUse ==
    \E id, y \in PeerIds :
        /\ Present(id) /\ conn[id].IsActive
        /\ conn[id].LastPing > conn[id].User.LastSeen
        /\ y \in DOMAIN conn /\ ~Present(y) /\ conn[y].IsActive
        /\ closes[y] = 1

\* C23: GetActivePeers returns one summary for every id that is a key of
\* either map at the time of the call, and no other; the list a caller holds
\* does not change while the registry does.
C23_ListIsSnapshot ==
    [][ \A c \in Clients :
          /\ Returns(c, "list")
               => LET r == req'[c].results
                  IN  /\ Len(r) = Cardinality(peers \cup superPeers)
                      /\ {r[k].ID : k \in 1..Len(r)} = peers \cup superPeers
                      /\ \A k \in 1..Len(r) : r[k] = Summary(r[k].ID)
                      /\ UNCHANGED registry
          /\ req[c].op = "list" /\ req[c].pc = "ret" /\ req'[c].pc = "ret"
               => req'[c].results = req[c].results
      ]_vars

C23_SnapshotOutlivesEntry ==
    \E c \in Clients :
        /\ req[c].pc = "ret" /\ req[c].op = "list"
        /\ Len(req[c].results) = 2
        /\ \E k \in 1..2 : ~Present(req[c].results[k].ID)

\* C24 as claimed: after the Disconnect channel of an entry has been closed,
\* its monitor makes no DisconnectPeer call.
C24_Original ==
    [][ \A id \in DOMAIN conn :
          conn[id].Disconnect = "closed" /\ mon'[id] # mon[id]
            => mon'[id].ret = "none"
      ]_vars

\* C24 as amended: after the Disconnect channel of an entry has been closed,
\* its monitor ends on the signal or, when a tick with an expired LastPing is
\* taken first, makes one DisconnectPeer call that returns NotFound; no step
\* of the monitor changes the registry or closes the channel again.
C24_StopThenNoRemoval ==
    [][ \A id \in DOMAIN conn :
          conn[id].Disconnect = "closed" /\ mon'[id] # mon[id]
            => /\ UNCHANGED <<registry, closes>>
               /\ ~panicked'
               /\ mon[id].pc = "select"
                    => mon'[id].pc \in {"select", "expired", "done"}
                       /\ mon'[id].ret = "none"
               /\ mon[id].pc = "expired"
                    => mon'[id].pc = "done" /\ mon'[id].ret = "NotFound"
      ]_vars

C24_RemovalCallAfterStop ==
    \E id \in PeerIds :
        /\ mon[id].pc = "done" /\ mon[id].ret = "NotFound"
        /\ conn[id].Disconnect = "closed" /\ closes[id] = 1

\* the monitor of id handles a tick in this step
Ticks(id) ==
    mon[id].pc = "select" /\ mon'[id] # mon[id] /\ mon'[id].pc # "done"

\* C25 as claimed: at a tick the monitor decides to remove its peer exactly
\* when now - LastPing >= ConnectionTimeout.
C25_Original ==
    [][ \A id \in DOMAIN conn :
          Ticks(id)
            => (mon'[id].pc = "expired"
                  <=> now - conn[id].LastPing >= ConnectionTimeout)
      ]_vars

\* C25 as amended: at a tick the monitor decides to remove its peer exactly
\* when now - LastPing > ConnectionTimeout.
C25_ReapWhenExceeded ==
    [][ \A id \in DOMAIN conn :
          Ticks(id)
            => (mon'[id].pc = "expired"
                  <=> now - conn[id].LastPing > ConnectionTimeout)
      ]_vars

C25_KeptAtTimeout ==
    \E id \in PeerIds :
        /\ Present(id) /\ mon[id].pc = "select"
        /\ now - conn[id].LastPing = ConnectionTimeout
        /\ mon[id].nextTick > now

\* C26: the monitor reads LastPing only while no other task holds the write
\* lock of the registry.
C26_ReadsUnderLock ==
    [][ \A id \in DOMAIN conn : Ticks(id) => mu.writer = "none" ]_vars

\* C27: a monitor makes at most one DisconnectPeer call, for its own id, and
\* is done right after it; a monitor that is done takes no further step.
C27_OneRemovalThenDone ==
    [][ \A id \in PeerIds :
          /\ mon[id].pc = "done" => mon'[id] = mon[id]
          /\ mon'[id].ret # mon[id].ret
               => /\ mon[id].pc = "expired" /\ mon[id].ret = "none"
                  /\ mon'[id].pc = "done"
                  /\ conn[id].User.ID = id
                  /\ \A y \in PeerIds \ {id} : Entry(y)' = Entry(y)
          /\ mon[id].pc = "expired" /\ mon'[id] # mon[id]
               => mon'[id].pc = "done" /\ mon'[id].ret # "none"
      ]_vars

C27_ReapedBesideLivePeer ==
    \E id, y \in PeerIds :
        /\ mon[id].pc = "done" /\ mon[id].ret = "ok"
        /\ Present(y) /\ MonLive(y)

\* C28: the monitor decides to remove its peer only at a tick where
\* now - LastPing is not below ConnectionTimeout, and it removes nothing
\* without that decision.
C28_NoPrematureReap ==
    [][ \A id \in DOMAIN conn :
          /\ mon'[id].pc = "expired" /\ mon[id].pc # "expired"
               => now - conn[id].LastPing >= ConnectionTimeout
          /\ mon'[id].ret = "ok" /\ mon[id].ret # "ok"
               => mon[id].pc = "expired"
      ]_vars

C28_KeptAliveByHeartbeats ==
    \E id \in PeerIds :
        /\ Present(id)
        /\ now - conn[id].User.LastSeen > ConnectionTimeout + HeartbeatInterval
        /\ closes[id] = 0

\* the registration of id has put it in a map
Inserted(id) ==
    /\ id \in DOMAIN conn
    /\ ~\E c \in Clients : req[c].pc = "reg_lock" /\ req[c].id = id

\* C29: for every id that has been put in a map, the Disconnect channel is
\* closed exactly when the id is a key of neither map.
C29_StopIffAbsent ==
    \A id \in PeerIds :
        Inserted(id) => (conn[id].Disconnect = "closed" <=> ~Present(id))

C29_OneGoneOneLeft ==
    \E id, y \in PeerIds :
        /\ Inserted(id) /\ conn[id].Disconnect = "closed" /\ ~Present(id)
        /\ Inserted(y) /\ conn[y].Disconnect = "open" /\ Present(y)

\* C30: a ShareFile call whose Create fails returns the store error after
\* that one attempt; the files table and every Files cache are unchanged and
\* the handler does nothing more than return.
C30_FailedShareLeavesCaches ==
    [][ \A c \in Clients :
          /\ Calls(c, "share") /\ req'[c].dbErr
               => /\ req'[c].pc = "ret" /\ req'[c].ret = "StoreError"
                  /\ UNCHANGED <<registry, dbFiles>>
          /\ req[c].op = "share" /\ req[c].ret = "StoreError"
             /\ req'[c] # req[c]
               => req'[c] = IdleReq /\ UNCHANGED <<registry, dbFiles>>
      ]_vars

C30_ShareFailed ==
    \E c \in Clients :
        /\ req[c].pc = "ret" /\ req[c].op = "share"
        /\ req[c].ret = "StoreError" /\ req[c].dbErr
        /\ Present(req[c].id) /\ DOMAIN conn[req[c].id].Files = {}

\* C31: a SearchSharedFiles call whose store query succeeds returns ok; its
\* result is empty when the query matched nothing and when no matched record
\* has an owner in the registry.
C31_EmptySearchIsOk ==
    [][ \A c \in Clients :
          Returns(c, "search") /\ req[c].pc = "search_loop"
            => /\ req'[c].ret = "ok"
               /\ (\A k \in 1..Len(req[c].dbFiles) :
                      ~Present(req[c].dbFiles[k].OwnerID))
                    => req'[c].results = <<>>
      ]_vars

C31_MatchesWithoutOwner ==
    \E c \in Clients :
        /\ req[c].pc = "ret" /\ req[c].op = "search" /\ req[c].ret = "ok"
        /\ req[c].results = <<>>
        /\ Len(req[c].dbFiles) > 0

\* C32: GetPeerFiles returns at once, without waiting for the lock; when the
\* store answers, the result is the records of the files table whose OwnerID
\* is the id asked for, whether or not the id is in the registry; the
\* registry, the lock and the store are left as they are.
C32_FilesBypassRegistry ==
    [][ \A c \in Clients :
          Calls(c, "files")
            => /\ req'[c].pc = "ret"
               /\ UNCHANGED <<registry, mu, dbFiles>>
               /\ req'[c].ret = "ok"
                    => LET id == req'[c].id
                       IN  req'[c].results =
                             SelectSeq(dbFiles, LAMBDA f : f.OwnerID = id)
      ]_vars

C32_FilesWhileLocked ==
    \E c \in Clients :
        /\ req[c].pc = "ret" /\ req[c].op = "files" /\ req[c].ret = "ok"
        /\ Len(req[c].results) > 0
        /\ mu.writer \in Clients \ {c}

\* C33: when the monitor's DisconnectPeer call removes the entry, the entry's
\* LastPing is older than ConnectionTimeout.
C33_StillExpiredAtRemoval ==
    [][ \A id \in DOMAIN conn :
          mon[id].pc = "expired" /\ mon'[id].pc = "done"
          /\ mon'[id].ret = "ok"
            => now - conn[id].LastPing > ConnectionTimeout
      ]_vars

\* id has been removed from the registry
Removed(id) == id \in DOMAIN conn /\ conn[id].Disconnect = "closed"

\* C34: a step that removes an entry leaves the store as it is, and no step
\* deletes or changes a record of the files table; a search adds no record
\* of a removed owner to its result; GetPeerFiles for a removed owner returns
\* the owner's records.
C34_RemovalKeepsStore ==
    [][ /\ \A id \in PeerIds :
             Present(id) /\ ~Present(id)' => UNCHANGED <<dbFiles, dbUsers>>
        /\ Len(dbFiles') >= Len(dbFiles)
        /\ \A k \in 1..Len(dbFiles) : dbFiles'[k] = dbFiles[k]
        /\ \A c \in Clients :
             req'[c].op = "search"
             /\ Len(req'[c].results) > Len(req[c].results)
               => ~Removed(req'[c].results[Len(req'[c].results)].File.OwnerID)
        /\ \A c \in Clients :
             Calls(c, "files") /\ req'[c].ret = "ok" /\ Removed(req'[c].id)
               => LET id == req'[c].id
                  IN  req'[c].results =
                        SelectSeq(dbFiles, LAMBDA f : f.OwnerID = id)
      ]_vars

C34_FilesOfRemovedOwner ==
    \E c \in Clients :
        /\ req[c].pc = "ret" /\ req[c].op = "files" /\ req[c].ret = "ok"
        /\ Len(req[c].results) > 0
        /\ Removed(req[c].id) /\ ~Present(req[c].id)

\* no call is running, nobody holds the lock, no monitor is about to call
\* DisconnectPeer
Quiet ==
    /\ \A c \in Clients : req[c].pc = "idle"
    /\ mu.writer = "none" /\ mu.readers = {}
    /\ \A id \in PeerIds : mon[id].pc # "expired"

\* C35: the lock is held only by a call that is still running, and whenever
\* a call is running, the lock is held or a monitor is about to make its
\* removal call, a state follows in which every call has returned, the lock
\* is free and the removal call has completed.
C35_NoDeadlock ==
    /\ [](\A c \in Clients :
            /\ mu.writer = c => req[c].pc = "hb_db"
            /\ c \in mu.readers => req[c].pc = "search_loop")
    /\ ~Quiet ~> Quiet

C35_ErrorPathReleases ==
    \E c \in Clients :
        /\ req[c].pc = "ret" /\ req[c].op = "heartbeat"
        /\ req[c].ret = "StoreError"
        /\ mu.writer = "none" /\ mu.readers = {}

C37_CachedFilesAreStored ==
    \A id \in DOMAIN conn :
        \A f \in DOMAIN conn[id].Files : InStore(conn[id].Files[f])

C37_TwoCached ==
    \E id \in PeerIds :
        /\ Present(id)
        /\ Cardinality(DOMAIN conn[id].Files) >= 2

\* C38: the user, address and port of a PeerConnection never change; a
\* heartbeat changes nothing but the LastPing of its target, a share nothing
\* but the Files of its target, and a search or a listing nothing at all.
C38_OnlyTargetFieldChanges ==
    [][ /\ \A id \in DOMAIN conn :
             /\ id \in DOMAIN conn'
             /\ conn'[id].User = conn[id].User
             /\ conn'[id].IPAddress = conn[id].IPAddress
             /\ conn'[id].ListenPort = conn[id].ListenPort
        /\ \A c \in Clients :
             /\ Calls(c, "heartbeat")
                  => /\ UNCHANGED <<peers, superPeers>>
                     /\ \A y \in DOMAIN conn :
                          conn'[y] =
                            IF y = req'[c].id /\ Present(y)
                            THEN [conn[y] EXCEPT !.LastPing = now]
                            ELSE conn[y]
             /\ Returns(c, "heartbeat") /\ req[c].pc = "hb_db"
                  => UNCHANGED registry
             /\ Calls(c, "share") => UNCHANGED registry
             /\ Returns(c, "share") /\ req[c].pc = "share_cache"
                  => /\ UNCHANGED <<peers, superPeers>>
                     /\ \A y \in DOMAIN conn :
                          \/ conn'[y] = conn[y]
                          \/ /\ y = req[c].id
                             /\ [conn'[y] EXCEPT !.Files = conn[y].Files]
                                  = conn[y]
             /\ req'[c] # req[c] /\ req'[c].op \in {"search", "list"}
                  => UNCHANGED registry
      ]_vars

C38_IdentityKept ==
    \E c \in Clients, j \in Joins :
        /\ req[c].pc = "ret" /\ req[c].op = "heartbeat" /\ req[c].ret = "ok"
        /\ Present(req[c].id)
        /\ DOMAIN conn[req[c].id].Files # {}
        /\ conn[req[c].id].User.ID = req[c].id
        /\ conn[req[c].id].User.Username = j.PeerName
        /\ conn[req[c].id].IPAddress = j.IP
        /\ conn[req[c].id].ListenPort = j.ListenPort

Next ==
    \/ \E c \in Clients, j \in Joins, s \in BOOLEAN, e \in BOOLEAN :
          RegisterCreate(c, j.PeerName, j.IP, j.ListenPort, s, e)
    \/ \E c \in Clients : RegisterInsert(c)
    \/ \E c \in Clients : RegisterSpawn(c)
    \/ \E c \in Clients, id \in PeerIds : Disconnect(c, id)
    \/ \E id \in PeerIds : MonitorTick(id)
    \/ \E id \in PeerIds : MonitorDisconnect(id)
    \/ \E id \in PeerIds : MonitorStop(id)
    \/ \E c \in Clients, id \in PeerIds : HeartbeatWrite(c, id)
    \/ \E c \in Clients, e \in BOOLEAN : HeartbeatStore(c, e)
    \/ \E c \in Clients, id \in PeerIds, k \in FileKinds, z \in Sizes,
          e \in BOOLEAN : ShareCreate(c, id, k, z, e)
    \/ \E c \in Clients : ShareCache(c)
    \/ \E c \in Clients, q \in Queries, e \in BOOLEAN : SearchQuery(c, q, e)
    \/ \E c \in Clients : SearchRLock(c)
    \/ \E c \in Clients : SearchIter(c)
    \/ \E c \in Clients : SearchDone(c)
    \/ \E c \in Clients, regular \in Orders(peers), super \in Orders(superPeers) :
          GetActivePeers(c, regular, super)
    \/ \E c \in Clients, id \in PeerIds, e \in BOOLEAN : GetPeerFiles(c, id, e)
    \/ \E c \in Clients : Return(c)
    \/ Advance

Spec == Init /\ [][Next]_vars

\* a step of the monitor goroutine of id
MonitorStep(id) ==
    MonitorTick(id) \/ MonitorDisconnect(id) \/ MonitorStop(id)

\* a step of the handler goroutine of c after it has taken the request
HandlerStep(c) ==
    \/ RegisterInsert(c) \/ RegisterSpawn(c)
    \/ \E e \in BOOLEAN : HeartbeatStore(c, e)
    \/ ShareCache(c)
    \/ SearchRLock(c) \/ SearchIter(c) \/ SearchDone(c)
    \/ Return(c)

\* the Go scheduler runs every goroutine that can run
FairSpec ==
    /\ Spec
    /\ \A id \in PeerIds : WF_vars(MonitorStep(id))
    /\ \A c \in Clients : WF_vars(HandlerStep(c))
====
